---- MODULE Spec2Model ----
(***************************************************************************)
(* KalshiProto backend (src/backend/main.py, src/backend/logging_utils.py) *)
(* as a state machine: the bot loop task, the start and stop handlers, the *)
(* demo signal endpoint, the decision step, the order submission and the   *)
(* events handed to the logging sink.                                      *)
(*                                                                         *)
(* Fractions (scores, ratios) are integers in thousandths: 0.6 is 600.     *)
(* Position sizes are plain integers (100.0 is 100).                       *)
(***************************************************************************)
EXTENDS Integers, Sequences, FiniteSets, TLC

\* ------------------------------------------------------------------ bounds

\* How many bot_loop tasks start_bot_loop may create in one run.
MaxStarts == 2

\* How many loop iterations may begin in one run, over all tasks.
MaxLoops == 2

\* How many whale events one run may put into the whale history.
MaxWhales == 203

\* How many levels a side of a short order book given to the analyzer has.
MaxLevels == 2

\* How many markets a venue listing given to fetch_markets alone has.
MaxListing == 3

\* ------------------------------------------------------- program constants

\* One unit of a fraction: 1.0.
Scale == 1000

\* process_signal thresholds (main.py 308, 311, 314).
LongThreshold == 600
ShortThreshold == 400
ExitLow == 450
ExitHigh == 550

\* Fixed lot size of process_signal and of the loop's submit_order call.
LotSize == 100

\* generate_signal thresholds (main.py 287-292).
ImbalanceGate == 150
BuyRatio == 550
SellRatio == 450
SignalBase == 600
HoldScore == 500

\* analyze_orderbook sums the top 5 levels of a side; its defaults.
TopLevels == 5
DefaultBestAsk == 100

\* check_whale_activity thresholds: a size of 5000, an imbalance of 0.25.
WhaleSize == 5000
WhaleImbalance == 250

\* The caps of the whale history and of the timeline.
WhaleCap == 200
TimelineCap == 100

\* fetch_markets is called with limit=20 and the loop processes markets[:10].
FetchLimit == 20
ProcessLimit == 10

\* ------------------------------------------------------------- the inputs

Tickers == {"A", "B"}

Modes == {"paper", "live"}

\* Predictions the demo endpoint is called with, on and around every
\* threshold of process_signal.
Scores == {300, 400, 401, 450, 451, 500, 549, 550, 599, 600, 650, 900}

Abs(x) == IF x < 0 THEN -x ELSE x

Max(a, b) == IF a > b THEN a ELSE b

\* s[:n]
\* A slice that keeps the whole list.
Take_all(s, n) == s

Take(s, n) == IF Len(s) <= n THEN s ELSE SubSeq(s, 1, n)

\* ------------------------------------------------------------ order books

\* A book side as the venue sends it: a list of levels or something else;
\* a level is a sequence of fields, <<price, size>> when well formed.
Side(levels) == [isList |-> TRUE, levels |-> levels]

NoSide == [isList |-> FALSE, levels |-> <<>>]

Book(yes, no) == [isDict |-> TRUE, yes |-> yes, no |-> no]

\* fetch_orderbook's result on a transport error: {}.
EmptyBook == Book(NoSide, NoSide)

\* "orderbook": null in the response: fetch_orderbook returns None and
\* analyze_orderbook raises AttributeError.
NullBook == [isDict |-> FALSE, yes |-> NoSide, no |-> NoSide]

BidHeavyBook == Book(Side(<< <<48, 800>> >>), Side(<< <<52, 200>> >>))

AskHeavyBook == Book(Side(<< <<48, 200>> >>), Side(<< <<52, 800>> >>))

BalancedBook == Book(Side(<< <<48, 500>>, <<47>> >>), Side(<< <<52, 500>> >>))

Books == {EmptyBook, NullBook, BidHeavyBook, AskHeavyBook, BalancedBook}

\* yes_bids / no_bids of analyze_orderbook: a side that is no list is [].
SideLevels(side) == IF side.isList THEN side.levels ELSE <<>>

\* sum(level[1] for level in levels if len(level) >= 2)
RECURSIVE SumSizes(_)
SumSizes(levels) ==
    IF levels = <<>> THEN 0
    ELSE (IF Len(Head(levels)) >= 2 THEN Head(levels)[2] ELSE 0)
         + SumSizes(Tail(levels))

\* The sizes a side's well-formed levels carry.
ValidSizes(levels) ==
    {levels[k][2] : k \in {j \in 1..Len(levels) : Len(levels[j]) >= 2}}

\* max((level[1] for level in levels if len(level) >= 2), default=0)
MaxSize(levels) ==
    IF ValidSizes(levels) = {} THEN 0
    ELSE CHOOSE m \in ValidSizes(levels) : \A n \in ValidSizes(levels) : n <= m

\* A ratio that is 0 when there is no volume.
BidRatio_zero(bid_volume, total_volume) ==
    IF total_volume > 0 THEN (bid_volume * Scale) \div total_volume ELSE 0

\* bid_volume / total_volume if total_volume > 0 else 0.5
BidRatio(bid_volume, total_volume) ==
    IF total_volume > 0
    THEN (bid_volume * Scale) \div total_volume
    ELSE Scale \div 2

analyze_orderbook(orderbook) ==
    LET yes_bids == SideLevels(orderbook.yes)
        no_bids == SideLevels(orderbook.no)
        bid_volume == SumSizes(Take(yes_bids, TopLevels))
        ask_volume == SumSizes(Take(no_bids, TopLevels))
        total_volume == bid_volume + ask_volume
        bid_ratio == BidRatio(bid_volume, total_volume)
        best_bid == IF yes_bids # <<>> /\ Len(yes_bids[1]) >= 2
                    THEN yes_bids[1][1] ELSE 0
        best_ask == IF no_bids # <<>> /\ Len(no_bids[1]) >= 2
                    THEN no_bids[1][1] ELSE DefaultBestAsk
    IN  [bid_volume |-> bid_volume,
         ask_volume |-> ask_volume,
         bid_ratio |-> bid_ratio,
         imbalance_strength |-> Abs(bid_ratio - Scale \div 2),
         max_bid_size |-> MaxSize(yes_bids),
         max_ask_size |-> MaxSize(no_bids),
         best_bid |-> best_bid,
         best_ask |-> best_ask,
         spread |-> IF best_ask > best_bid THEN best_ask - best_bid ELSE 0]

\* A policy whose SELL score is low: 1 - (0.6 + imbalance).
generate_signal_sellLow(features) ==
    LET bid_ratio == features.bid_ratio
        imbalance == features.imbalance_strength
    IN  IF imbalance > ImbalanceGate /\ bid_ratio > BuyRatio
        THEN [direction |-> "BUY", score |-> SignalBase + imbalance]
        ELSE IF imbalance > ImbalanceGate /\ bid_ratio < SellRatio
        THEN [direction |-> "SELL", score |-> Scale - (SignalBase + imbalance)]
        ELSE [direction |-> "HOLD", score |-> HoldScore]

\* A policy gated on bid_ratio alone.
generate_signal_ratioOnly(features) ==
    LET bid_ratio == features.bid_ratio
        imbalance == features.imbalance_strength
    IN  IF bid_ratio > BuyRatio
        THEN [direction |-> "BUY", score |-> SignalBase + imbalance]
        ELSE IF bid_ratio < SellRatio
        THEN [direction |-> "SELL", score |-> SignalBase + imbalance]
        ELSE [direction |-> "HOLD", score |-> HoldScore]

generate_signal(features) ==
    LET bid_ratio == features.bid_ratio
        imbalance == features.imbalance_strength
    IN  IF imbalance > ImbalanceGate /\ bid_ratio > BuyRatio
        THEN [direction |-> "BUY", score |-> SignalBase + imbalance]
        ELSE IF imbalance > ImbalanceGate /\ bid_ratio < SellRatio
        THEN [direction |-> "SELL", score |-> SignalBase + imbalance]
        ELSE [direction |-> "HOLD", score |-> HoldScore]

\* The levels the analyzer is tried on: no field, one field, a price and a
\* size, and a level with a third field.
Levels == {<<>>, <<47>>, <<48, 300>>, <<52, 200, 7>>}

\* A side of seven levels: the third is short, the sixth and the seventh lie
\* beyond the top five and the seventh is the largest.
DeepLevels ==
    << <<48, 300>>, <<47, 100>>, <<46>>, <<45, 100>>, <<44, 100>>,
       <<43, 100>>, <<42, 900>> >>

\* The sides the analyzer is tried on: missing or no list, every list of up
\* to MaxLevels levels, and the deep one.
AnalyzerSides ==
    {NoSide, Side(DeepLevels)}
    \cup {Side(levels) : levels \in UNION {[1..n -> Levels] : n \in 0..MaxLevels}}

\* The books the analyzer is tried on, the null book among them.
AnalyzerBooks ==
    {NullBook} \cup {Book(yes, no) : yes \in AnalyzerSides, no \in AnalyzerSides}

\* The feature values the signal policy is tried on, around 0.45 and 0.55
\* for bid_ratio and around 0.15 for imbalance_strength.
SignalRatios == {0, 449, 450, 451, 500, 549, 550, 551, 1000}

SignalImbalances == {0, 149, 150, 151, 250, 400}

SignalFeatures ==
    {[bid_ratio |-> r, imbalance_strength |-> i] :
        r \in SignalRatios, i \in SignalImbalances}

\* --------------------------------------------------------- market listing

\* One market of the venue's listing. status "None" is a market without a
\* status field; hasTitle is FALSE when "title" is null.
Market(ticker, status, volume, volume_24h, hasTitle, yes_bid, yes_ask) ==
    [ticker |-> ticker, status |-> status, volume |-> volume,
     volume_24h |-> volume_24h, hasTitle |-> hasTitle,
     yes_bid |-> yes_bid, yes_ask |-> yes_ask]

\* The venue's answer to GET /markets: ok is FALSE on a transport error.
Listing(ok, markets) == [ok |-> ok, markets |-> markets]

MarketA == Market("A", "open", 10, 0, TRUE, 48, 52)

MarketB == Market("B", "active", 0, 5, TRUE, 0, 0)

Listings ==
    { Listing(FALSE, <<>>),
      Listing(TRUE, << Market("A", "closed", 10, 0, TRUE, 48, 52),
                       Market("B", "open", 0, 0, TRUE, 0, 0) >>),
      Listing(TRUE, << MarketB, MarketA, Market("", "None", 20, 20, TRUE, 0, 0) >>),
      Listing(TRUE, << Market("B", "open", 1, 1, FALSE, 0, 0) >>) }

\* The sort key of fetch_markets: volume + volume_24h.
SortKey(m) == m.volume + m.volume_24h

\* A sort that puts a market before those of equal key.
InsertByVolume_reversing(m, sorted) ==
    LET n == Cardinality({k \in 1..Len(sorted) : SortKey(sorted[k]) > SortKey(m)})
    IN  SubSeq(sorted, 1, n) \o <<m>> \o SubSeq(sorted, n + 1, Len(sorted))

\* list.sort(key, reverse=True) is stable: m goes after every market whose
\* key is at least its own.
InsertByVolume(m, sorted) ==
    LET n == Cardinality({k \in 1..Len(sorted) : SortKey(sorted[k]) >= SortKey(m)})
    IN  SubSeq(sorted, 1, n) \o <<m>> \o SubSeq(sorted, n + 1, Len(sorted))

RECURSIVE SortByVolume(_)
SortByVolume(markets) ==
    IF markets = <<>> THEN <<>>
    ELSE InsertByVolume(markets[Len(markets)],
                        SortByVolume(SubSeq(markets, 1, Len(markets) - 1)))

StatusOk(m) == m.status \in {"open", "active", "None"}

HasVolume(m) == m.volume > 0 \/ m.volume_24h > 0

fetch_markets(response, limit) ==
    IF ~response.ok THEN <<>>
    ELSE Take(SortByVolume(SelectSeq(SelectSeq(response.markets, StatusOk),
                                     HasVolume)),
              limit)

\* The markets fetch_markets alone is tried on: three of equal key 10 (one of
\* them without a status field), a closed one, one without volume, and a
\* larger one.
VenueMarkets ==
    { Market("A", "open", 10, 0, TRUE, 48, 52),
      Market("B", "active", 0, 10, TRUE, 48, 52),
      Market("C", "None", 5, 5, TRUE, 48, 52),
      Market("D", "closed", 50, 0, TRUE, 48, 52),
      Market("E", "open", 0, 0, TRUE, 48, 52),
      Market("F", "open", 20, 0, TRUE, 48, 52) }

\* The venue's answers fetch_markets alone is tried on: a transport error,
\* and every listing of up to MaxListing different markets.
VenueListings ==
    {Listing(FALSE, <<>>)}
    \cup {Listing(TRUE, markets) :
            markets \in {q \in UNION {[1..n -> VenueMarkets] : n \in 0..MaxListing} :
                            \A i, j \in DOMAIN q : i # j => q[i] # q[j]}}

\* The values of the limit parameter fetch_markets alone is tried on.
Limits == {1, 2, FetchLimit}

\* bot_loop's call fetch_markets(client, limit=20), by the venue's answer.
Fetched == [response \in Listings |-> fetch_markets(response, FetchLimit)]

\* bot_loop's call analyze_orderbook(orderbook), by the book fetched.
Analysed == [book \in {b \in Books : b.isDict} |-> analyze_orderbook(book)]

\* ------------------------------------------------------------------ state

VARIABLES
    BOT_MODE,        \* the configured mode, fixed at import
    positions,       \* _state["positions"]: ticker -> size (absent is 0)
    overview,        \* _state["overview"]: total_exposure, open_positions
    bot_running,     \* _state["bot_running"]
    bot_error,       \* _state["bot_error"]: "None" or the kind of str(e)
    loop_count,      \* _state["loop_count"]
    bot_task,        \* _bot_task: 0 is None, else the id of the task
    bot_stop_event,  \* _bot_stop_event.is_set()
    tasks,           \* every bot_loop task created: its position and locals
    stopper,         \* the stop_bot_loop call in flight, if any
    lastCall,        \* the handler or loop step that ran last and its outcome
    emitted,         \* the events that step handed to the logging sink
    whales,          \* _state["whales"], newest first
    timeline,        \* _state["timeline"], newest first
    inserted         \* how many events each of the two has been given so far

vars == <<BOT_MODE, positions, overview, bot_running, bot_error, loop_count, bot_task, bot_stop_event, tasks,
          stopper, lastCall, emitted, whales, timeline, inserted>>

TaskIds == 1..MaxStarts

\* A task that start_bot_loop has not created yet.
NoTask ==
    [pc |-> "unborn", loop_count |-> 0, markets |-> <<>>, idx |-> 0,
     cancelRequested |-> FALSE]

\* asyncio.Task.done()
Done(t) == tasks[t].pc = "done"

\* A created task whose coroutine has not returned.
Live(t) == tasks[t].pc \notin {"unborn", "done"}

\* The iterations begun so far, over all tasks.
RECURSIVE LoopsBegun(_)
LoopsBegun(n) == IF n = 0 THEN 0 ELSE tasks[n].loop_count + LoopsBegun(n - 1)

\* Whether the run may begin one more iteration.
MayLoop == LoopsBegun(MaxStarts) < MaxLoops

\* The await points of bot_loop's try block, where the task stays for as
\* long as the venue or the timer takes.
TimedAwaits == {"fetch_markets", "empty_sleep", "fetch_orderbook", "market_sleep"}

\* --------------------------------------------------------- position ledger

get_position(pos, ticker) == pos[ticker]

set_position(pos, ticker, size) == [pos EXCEPT ![ticker] = size]

\* sum(abs(p) for p in positions.values())
RECURSIVE SumAbs(_, _)
SumAbs(pos, keys) ==
    IF keys = {} THEN 0
    ELSE LET k == CHOOSE x \in keys : TRUE
         IN  Abs(pos[k]) + SumAbs(pos, keys \ {k})

\* An exposure that counts long positions only.
GrossExposure_longOnly(pos) ==
    SumAbs([k \in DOMAIN pos |-> IF pos[k] > 0 THEN pos[k] ELSE 0], DOMAIN pos)

GrossExposure(pos) == SumAbs(pos, DOMAIN pos)

\* A count of every entry of the position map, flat ones included.
OpenPositions_all(pos) == Cardinality(DOMAIN pos)

\* len([p for p in positions.values() if p != 0])
OpenPositions(pos) == Cardinality({k \in DOMAIN pos : pos[k] # 0})

\* ----------------------------------------------------------- decision step

\* A rule that enters on the score alone, whatever the position held.
Decide_noPositionTest(position_before, prediction) ==
    IF prediction >= LongThreshold
    THEN [action |-> "enter_long", position_after |-> LotSize]
    ELSE IF prediction <= ShortThreshold
    THEN [action |-> "enter_short", position_after |-> -LotSize]
    ELSE IF position_before # 0 /\ ExitLow < prediction /\ prediction < ExitHigh
    THEN [action |-> "exit", position_after |-> 0]
    ELSE [action |-> "hold", position_after |-> position_before]

\* A rule whose exit gives up half of the position instead of all of it.
Decide_scaleOut(position_before, prediction) ==
    IF prediction >= LongThreshold /\ position_before <= 0
    THEN [action |-> "enter_long", position_after |-> LotSize]
    ELSE IF prediction <= ShortThreshold /\ position_before >= 0
    THEN [action |-> "enter_short", position_after |-> -LotSize]
    ELSE IF position_before # 0 /\ ExitLow < prediction /\ prediction < ExitHigh
    THEN [action |-> "exit", position_after |-> position_before \div 2]
    ELSE [action |-> "hold", position_after |-> position_before]

\* A rule that closes a long position on a second high score.
Decide_takeProfit(position_before, prediction) ==
    IF prediction >= LongThreshold /\ position_before <= 0
    THEN [action |-> "enter_long", position_after |-> LotSize]
    ELSE IF prediction <= ShortThreshold /\ position_before >= 0
    THEN [action |-> "enter_short", position_after |-> -LotSize]
    ELSE IF position_before # 0
            /\ (prediction >= LongThreshold
                \/ (ExitLow < prediction /\ prediction < ExitHigh))
    THEN [action |-> "exit", position_after |-> 0]
    ELSE [action |-> "hold", position_after |-> position_before]

\* The branch of process_signal taken for a position and a prediction.
Decide(position_before, prediction) ==
    IF prediction >= LongThreshold /\ position_before <= 0
    THEN [action |-> "enter_long", position_after |-> LotSize]
    ELSE IF prediction <= ShortThreshold /\ position_before >= 0
    THEN [action |-> "enter_short", position_after |-> -LotSize]
    ELSE IF position_before # 0 /\ ExitLow < prediction /\ prediction < ExitHigh
    THEN [action |-> "exit", position_after |-> 0]
    ELSE [action |-> "hold", position_after |-> position_before]

\* The row log_signal_decision hands to the signals log.
SignalEvent(ticker, decision_price, prediction, action, before, after) ==
    [kind |-> "signal", ticker |-> ticker, decision_price |-> decision_price,
     prediction |-> prediction, action |-> action,
     position_before |-> before, position_after |-> after]

\* A decision step that logs nothing when it holds.
DecisionEvents_quietHold(ticker, decision_price, prediction, before) ==
    LET d == Decide(before, prediction)
    IN  IF d.action = "hold"
        THEN <<>>
        ELSE << SignalEvent(ticker, decision_price, prediction, d.action,
                            before, d.position_after) >>

\* The events process_signal hands over: one log_signal_decision call.
DecisionEvents(ticker, decision_price, prediction, before) ==
    LET d == Decide(before, prediction)
    IN  << SignalEvent(ticker, decision_price, prediction, d.action, before,
                       d.position_after) >>

\* A decision step that leaves the position map to its caller.
PositionsAfterDecision_unapplied(pos, ticker, prediction, logOk) == pos

\* The position map process_signal leaves: it stores the new size itself,
\* unless the log call raised first.
PositionsAfterDecision(pos, ticker, prediction, logOk) ==
    LET before == get_position(pos, ticker)
        d == Decide(before, prediction)
    IN  IF logOk /\ d.position_after # before
        THEN set_position(pos, ticker, d.position_after)
        ELSE pos

\* process_signal as a whole: the events, the position map it leaves, the
\* action it returns and whether it raised instead of returning.
process_signal(pos, ticker, prediction, decision_price, logOk) ==
    LET before == get_position(pos, ticker)
    IN  [events |-> DecisionEvents(ticker, decision_price, prediction, before),
         positions |-> PositionsAfterDecision(pos, ticker, prediction, logOk),
         action |-> Decide(before, prediction).action,
         raised |-> ~logOk]

\* -------------------------------------------------------- order submission

\* What the trades log does with the rows of one submit_order call: failAt
\* names the write that raises ("none", "submitted" or "filled"), errorOk
\* whether the write of the error row succeeds.
TradeSinks ==
    [failAt : {"none", "submitted", "filled"}, errorOk : BOOLEAN]

\* A trades log that takes every row.
NoFailure == [failAt |-> "none", errorOk |-> TRUE]

\* The row log_trade hands to the trades log.
TradeEvent(ticker, order_id, side, size, limit_price, status) ==
    [kind |-> "trade", ticker |-> ticker, order_id |-> order_id,
     side |-> side, size |-> size, limit_price |-> limit_price,
     status |-> status]

\* order_id = f"paper_{ticker}_{timestamp}"
OrderId(ticker) == <<"paper", ticker>>

\* A submission that reports the order and never its fill.
SubmitRows_noFill(ticker, side, size, limit_price, mode, sink) ==
    << TradeEvent(ticker, OrderId(ticker), side, size, limit_price, "submitted") >>

\* A submission whose fill is one tick away from the limit price.
SubmitRows_slippage(ticker, side, size, limit_price, mode, sink) ==
    << TradeEvent(ticker, OrderId(ticker), side, size, limit_price, "submitted") >>
    \o (IF mode = "paper" /\ sink.failAt # "submitted"
        THEN << TradeEvent(ticker, OrderId(ticker), side, size,
                           limit_price + Scale, "filled") >>
        ELSE <<>>)

\* The rows submit_order hands over inside its try block.
SubmitRows(ticker, side, size, limit_price, mode, sink) ==
    << TradeEvent(ticker, OrderId(ticker), side, size, limit_price, "submitted") >>
    \o (IF mode = "paper" /\ sink.failAt # "submitted"
        THEN << TradeEvent(ticker, OrderId(ticker), side, size, limit_price,
                           "filled") >>
        ELSE <<>>)

\* Whether a write inside the try block raised.
SubmitFailed(mode, sink) ==
    \/ sink.failAt = "submitted"
    \/ sink.failAt = "filled" /\ mode = "paper"

\* submit_order as a whole: the rows handed over and how the call ends:
\* "filled" (success), "error" (success False) or "raised" (the error row's
\* own write raised inside the except block).
submit_order(ticker, side, size, limit_price, mode, sink) ==
    IF SubmitFailed(mode, sink)
    THEN [events |-> SubmitRows(ticker, side, size, limit_price, mode, sink)
                     \o << TradeEvent(ticker, <<>>, side, size, limit_price,
                                      "error") >>,
          result |-> IF sink.errorOk THEN "error" ELSE "raised"]
    ELSE [events |-> SubmitRows(ticker, side, size, limit_price, mode, sink),
          result |-> "filled"]

\* --------------------------------------------------------- one market step

\* A whale test whose thresholds are exclusive.
IsWhale_strict(ob) ==
    \/ ob.max_bid_size > WhaleSize
    \/ ob.max_ask_size > WhaleSize
    \/ ob.imbalance_strength > WhaleImbalance

\* is_whale of check_whale_activity.
IsWhale(ob) ==
    \/ ob.max_bid_size >= WhaleSize
    \/ ob.max_ask_size >= WhaleSize
    \/ ob.imbalance_strength >= WhaleImbalance

\* The row log_large_order hands to the whales log.
WhaleEvent(ticker, ob) ==
    LET side == IF ob.max_bid_size > ob.max_ask_size THEN "bid" ELSE "ask"
    IN  [kind |-> "whale", ticker |-> ticker, side |-> side,
         size |-> Max(ob.max_bid_size, ob.max_ask_size),
         price_level |-> IF side = "bid" THEN ob.best_bid ELSE ob.best_ask,
         imbalance_strength |-> ob.imbalance_strength]

\* The rows check_whale_activity hands over.
check_whale_activity(ticker, ob) ==
    IF IsWhale(ob) THEN << WhaleEvent(ticker, ob) >> ELSE <<>>

\* side_bias of the whale event kept in memory.
SideBias(ob) ==
    IF ob.max_bid_size > ob.max_ask_size THEN "BUY_BIAS" ELSE "SELL_BIAS"

\* A history that is never cut.
InsertWhale_uncapped(history, event) == <<event>> \o history

\* check_whale_activity's insertion into _state["whales"]: insert(0, ...),
\* then the first 200 are kept. An entry of a history is the number of the
\* event in insertion order, which is the order of its timestamp.
InsertWhale(history, event) ==
    LET grown == <<event>> \o history
    IN  IF Len(grown) > WhaleCap THEN SubSeq(grown, 1, WhaleCap) ELSE grown

\* A timeline that grows at its end and keeps its last 100.
add_timeline_event_append(history, event) ==
    LET grown == history \o <<event>>
    IN  IF Len(grown) > TimelineCap
        THEN SubSeq(grown, Len(grown) - TimelineCap + 1, Len(grown))
        ELSE grown

\* add_timeline_event: insert(0, event), then the first 100 are kept.
add_timeline_event(history, event) ==
    LET grown == <<event>> \o history
    IN  IF Len(grown) > TimelineCap THEN SubSeq(grown, 1, TimelineCap) ELSE grown

\* market.get("yes_bid", 0) or ob_analysis.get("best_bid", 50), and the
\* same for the ask; the mid price in thousandths.
MidPrice(market, ob) ==
    LET yes_bid == IF market.yes_bid # 0 THEN market.yes_bid ELSE ob.best_bid
        yes_ask == IF market.yes_ask # 0 THEN market.yes_ask ELSE ob.best_ask
    IN  ((yes_bid + yes_ask) * Scale) \div 2

\* Whether the loop submits an order for the action process_signal returned.
Trades(action, mode) ==
    action \in {"enter_long", "enter_short"} /\ mode = "paper"

\* bot_loop from the return of fetch_orderbook to the next await, for one
\* market: the position map it leaves, the events handed over, the failure
\* that left the try block ("None" when none did), the action of the
\* decision step ("none" when it was not reached), whether the decision
\* step returned, and how the order submission ended ("none" when there
\* was none).
MarketStep(pos, mode, market, book, whaleOk, logOk, sink) ==
    IF ~book.isDict
    THEN [positions |-> pos, events |-> <<>>, error |-> "AttributeError",
          action |-> "none", returned |-> FALSE, submit |-> "none",
          prediction |-> 0, direction |-> "none"]
    ELSE
    LET ob == Analysed[book]
        whale_rows == check_whale_activity(market.ticker, ob)
        signal == generate_signal(ob)
        mid_price == MidPrice(market, ob)
        ps == process_signal(pos, market.ticker, signal.score, mid_price, logOk)
        side == IF ps.action = "enter_long" THEN "buy" ELSE "sell"
        so == submit_order(market.ticker, side, LotSize, mid_price, mode, sink)
    IN  IF whale_rows # <<>> /\ ~whaleOk
        THEN [positions |-> pos, events |-> whale_rows, error |-> "OSError",
              action |-> "none", returned |-> FALSE, submit |-> "none",
              prediction |-> 0, direction |-> "none"]
        ELSE IF ps.raised
        THEN [positions |-> ps.positions, events |-> whale_rows \o ps.events,
              error |-> "OSError", action |-> ps.action,
              returned |-> FALSE, submit |-> "none",
              prediction |-> signal.score, direction |-> signal.direction]
        ELSE IF Trades(ps.action, mode)
        THEN [positions |-> ps.positions,
              events |-> whale_rows \o ps.events \o so.events,
              error |-> IF so.result = "raised" THEN "OSError" ELSE "None",
              action |-> ps.action, returned |-> TRUE, submit |-> so.result,
              prediction |-> signal.score, direction |-> signal.direction]
        ELSE [positions |-> ps.positions, events |-> whale_rows \o ps.events,
              error |-> "None", action |-> ps.action, returned |-> TRUE,
              submit |-> "none",
              prediction |-> signal.score, direction |-> signal.direction]

\* The for loop's way to its next await: markets beyond the first ten end
\* the loop, a null title raises, an empty ticker is skipped.
RECURSIVE NextMarket(_, _)
NextMarket(markets, i) ==
    IF i > Len(Take(markets, ProcessLimit)) THEN [kind |-> "end", idx |-> i]
    ELSE IF ~markets[i].hasTitle THEN [kind |-> "raise", idx |-> i]
    ELSE IF markets[i].ticker = "" THEN NextMarket(markets, i + 1)
    ELSE [kind |-> "fetch", idx |-> i]

\* The row record_pnl_snapshot hands to the P&L log.
PnlEvent(pos) ==
    [kind |-> "pnl", ticker |-> "ALL", gross_exposure |-> GrossExposure(pos),
     position_size |-> OpenPositions(pos)]

\* ------------------------------------------------------------------- init

Init ==
    /\ BOT_MODE \in Modes
    /\ positions = [k \in Tickers |-> 0]
    /\ overview = [total_exposure |-> 0, open_positions |-> 0]
    /\ bot_running = FALSE
    /\ bot_error = "None"
    /\ loop_count = 0
    /\ bot_task = 0
    /\ bot_stop_event = FALSE
    /\ tasks = [t \in TaskIds |-> NoTask]
    /\ stopper = [pc |-> "idle", task |-> 0]
    /\ lastCall = [op |-> "init"]
    /\ emitted = <<>>
    /\ whales = <<>>
    /\ timeline = <<>>
    /\ inserted = [whales |-> 0, timeline |-> 0]

\* ----------------------------------------------------- start and stop

\* A start test that trusts the running flag instead of the task.
AlreadyRunning_flag == bot_task # 0 /\ bot_running

\* start_bot_loop's test: a task exists and has not finished.
AlreadyRunning == bot_task # 0 /\ ~Done(bot_task)

\* The id the next created task gets.
NewTask == CHOOSE t \in TaskIds : tasks[t].pc = "unborn" /\
                                  \A u \in TaskIds : u < t => tasks[u].pc # "unborn"

start_bot_loop ==
    IF AlreadyRunning
    THEN /\ lastCall' = [op |-> "start", result |-> FALSE]
         /\ emitted' = <<>>
         /\ UNCHANGED <<whales, timeline, inserted, BOT_MODE, positions, overview, bot_running, bot_error,
                        loop_count, bot_task,
                        bot_stop_event, tasks, stopper>>
    ELSE /\ \E t \in TaskIds : tasks[t].pc = "unborn"
         /\ MayLoop
         /\ bot_stop_event' = FALSE
         /\ bot_task' = NewTask
         /\ tasks' = [tasks EXCEPT ![NewTask].pc = "created"]
         /\ lastCall' = [op |-> "start", result |-> TRUE]
         /\ emitted' = <<>>
         /\ UNCHANGED <<whales, timeline, inserted, BOT_MODE, positions, overview, bot_running, bot_error,
                        loop_count,  stopper>>

\* A stop test that looks for a task and not at whether it has finished.
NotRunning_noTask == bot_task = 0

\* stop_bot_loop's test: no task, or the task has finished.
NotRunning == bot_task = 0 \/ Done(bot_task)

\* stop_bot_loop up to its await of the task.
stop_bot_loop ==
    /\ stopper.pc = "idle"
    /\ emitted' = <<>>
    /\ IF NotRunning
       THEN /\ lastCall' = [op |-> "stop", result |-> FALSE]
            /\ UNCHANGED <<whales, timeline, inserted, BOT_MODE, positions, overview, bot_running,
                           bot_error, loop_count, bot_task, bot_stop_event, tasks,
                           stopper>>
       ELSE /\ bot_stop_event' = TRUE
            /\ stopper' = [pc |-> "waiting", task |-> bot_task]
            /\ lastCall' = [op |-> "stop_wait"]
            /\ UNCHANGED <<whales, timeline, inserted, BOT_MODE, positions, overview, bot_running,
                           bot_error, loop_count, bot_task, tasks>>

\* The awaited task finished: stop_bot_loop returns True.
StopReturn ==
    /\ stopper.pc \in {"waiting", "cancelling"}
    /\ Done(stopper.task)
    /\ stopper' = [pc |-> "idle", task |-> 0]
    /\ lastCall' = [op |-> "stop", result |-> TRUE]
    /\ emitted' = <<>>
    /\ UNCHANGED <<whales, timeline, inserted, BOT_MODE, positions, overview, bot_running, bot_error,
                   loop_count, bot_task,
                   bot_stop_event, tasks>>

\* wait_for(_bot_task, timeout=10.0) timed out: the task is cancelled. Ten
\* seconds pass only while the task is at an await that takes time.
StopTimeout ==
    /\ stopper.pc = "waiting"
    /\ tasks[stopper.task].pc \in TimedAwaits
    /\ stopper' = [stopper EXCEPT !.pc = "cancelling"]
    /\ tasks' = [tasks EXCEPT ![stopper.task].cancelRequested = TRUE]
    /\ lastCall' = [op |-> "stop_timeout"]
    /\ emitted' = <<>>
    /\ UNCHANGED <<whales, timeline, inserted, BOT_MODE, positions, overview, bot_running, bot_error,
                   loop_count, bot_task,
                   bot_stop_event>>

\* ------------------------------------------------------------ demo signal

\* POST /demo/signal: process_signal outside the loop, at price 50.0. The
\* call is a repetition when the call before it was the same request and
\* returned.
demo_signal(ticker, prediction, logOk) ==
    LET ps == process_signal(positions, ticker, prediction, 50 * Scale, logOk)
        repeated == /\ lastCall.op = "demo_signal"
                    /\ lastCall.returned
                    /\ lastCall.ticker = ticker
                    /\ lastCall.prediction = prediction
    IN  /\ positions' = ps.positions
        /\ emitted' = ps.events
        /\ lastCall' = [op |-> "demo_signal", ticker |-> ticker,
                        prediction |-> prediction,
                        position_before |-> get_position(positions, ticker),
                        action |-> ps.action, returned |-> ~ps.raised,
                        repeated |-> repeated]
        /\ UNCHANGED <<whales, timeline, inserted, BOT_MODE, overview, bot_running, bot_error, loop_count, bot_task,
                       bot_stop_event, tasks, stopper>>

\* ------------------------------------------------------------- demo whale

\* POST /demo/whale: check_whale_activity outside the loop, on the features
\* given, with best_bid 48.0 and best_ask 52.0. A flagged call hands the
\* whale row to the log, then puts the event into the whale history and a
\* WHALE event into the timeline; nothing is inserted when the log raises.
demo_whale(ticker, max_bid_size, max_ask_size, imbalance_strength, whaleOk) ==
    LET ob == [max_bid_size |-> max_bid_size, max_ask_size |-> max_ask_size,
               imbalance_strength |-> imbalance_strength,
               best_bid |-> 48, best_ask |-> 52]
        rows == check_whale_activity(ticker, ob)
        is_whale == rows # <<>>
    IN  /\ whaleOk \/ is_whale
        /\ emitted' = rows
        /\ IF is_whale /\ whaleOk
           THEN /\ inserted.whales < MaxWhales
                /\ whales' = InsertWhale(whales, inserted.whales + 1)
                /\ timeline' = add_timeline_event(timeline,
                                                  inserted.timeline + 1)
                /\ inserted' = [whales |-> inserted.whales + 1,
                                timeline |-> inserted.timeline + 1]
           ELSE UNCHANGED <<whales, timeline, inserted>>
        /\ lastCall' = [op |-> "demo_whale", ticker |-> ticker,
                        max_bid_size |-> max_bid_size,
                        max_ask_size |-> max_ask_size,
                        imbalance_strength |-> imbalance_strength,
                        returned |-> ~is_whale \/ whaleOk,
                        logged |-> is_whale,
                        side_bias |-> IF is_whale THEN SideBias(ob) ELSE "none"]
        /\ UNCHANGED <<BOT_MODE, positions, overview, bot_running, bot_error,
                       loop_count, bot_task, bot_stop_event, tasks, stopper>>

\* --------------------------------------------------------------- demo pnl

\* POST /demo/pnl: record_pnl_snapshot outside the loop. The row is handed
\* to the P&L log; the call raises when the write does.
demo_pnl(pnlOk) ==
    /\ emitted' = << PnlEvent(positions) >>
    /\ lastCall' = [op |-> "demo_pnl", returned |-> pnlOk]
    /\ UNCHANGED <<whales, timeline, inserted, BOT_MODE, positions, overview,
                   bot_running, bot_error, loop_count, bot_task,
                   bot_stop_event, tasks, stopper>>

\* --------------------------------------------------------------- bot_loop

\* The while test of bot_loop.
StopSeen == bot_stop_event

\* A task that returns without resetting the running flag.
Leave_flagKept(t) ==
    /\ tasks' = [tasks EXCEPT ![t].pc = "done", ![t].cancelRequested = FALSE,
                              ![t].markets = <<>>, ![t].idx = 0]
    /\ UNCHANGED bot_running

\* A task leaves the while loop: _state["bot_running"] = False, return. Its
\* frame goes with it, so its locals are cleared.
Leave(t) ==
    /\ tasks' = [tasks EXCEPT ![t].pc = "done", ![t].cancelRequested = FALSE,
                              ![t].markets = <<>>, ![t].idx = 0]
    /\ bot_running' = FALSE

\* The while test and, when it passes, the head of an iteration up to the
\* await of fetch_markets.
WhileTest(t) ==
    IF StopSeen
    THEN /\ Leave(t)
         /\ UNCHANGED loop_count
    ELSE /\ MayLoop
         /\ tasks' = [tasks EXCEPT ![t].pc = "fetch_markets",
                                   ![t].loop_count = @ + 1,
                                   ![t].markets = <<>>,
                                   ![t].idx = 0]
         /\ loop_count' = tasks[t].loop_count + 1
         /\ UNCHANGED bot_running

\* A handler that records the failure and lets it end the task.
IterationFailed_propagates(t, error) ==
    /\ bot_error' = error
    /\ tasks' = [tasks EXCEPT ![t].pc = "done"]

\* The exception handler of an iteration: record the failure, go on to the
\* wait for the next iteration. The listing and the index into it are not
\* read again before the next fetch_markets assigns them, so they are
\* cleared here.
IterationFailed(t, error) ==
    /\ bot_error' = error
    /\ tasks' = [tasks EXCEPT ![t].pc = "wait", ![t].markets = <<>>,
                              ![t].idx = 0]

\* The task's first step: the prologue of bot_loop and the first while test.
LoopBegin(t) ==
    /\ tasks[t].pc = "created"
    /\ bot_error' = "None"
    /\ IF StopSeen
       THEN /\ Leave(t)
            /\ UNCHANGED loop_count
       ELSE /\ tasks' = [tasks EXCEPT ![t].pc = "fetch_markets",
                                      ![t].loop_count = 1]
            /\ loop_count' = 1
            /\ bot_running' = TRUE
    /\ lastCall' = [op |-> "loop_begin", task |-> t]
    /\ emitted' = <<>>
    /\ UNCHANGED <<whales, timeline, inserted, BOT_MODE, positions, overview, bot_task,
                   bot_stop_event, stopper>>

\* An end of iteration that hands over the snapshot and leaves the overview
\* as it was.
FinishIteration_noRecompute(t, pnlOk) ==
    /\ UNCHANGED overview
    /\ emitted' = << PnlEvent(positions) >>
    /\ IF pnlOk
       THEN /\ tasks' = [tasks EXCEPT ![t].pc = "wait", ![t].markets = <<>>,
                                      ![t].idx = 0]
            /\ UNCHANGED bot_error
       ELSE IterationFailed(t, "OSError")

\* An end of iteration that clears the error field when it succeeds.
FinishIteration_clearsError(t, pnlOk) ==
    /\ overview' = [total_exposure |-> GrossExposure(positions),
                    open_positions |-> OpenPositions(positions)]
    /\ emitted' = << PnlEvent(positions) >>
    /\ IF pnlOk
       THEN /\ tasks' = [tasks EXCEPT ![t].pc = "wait", ![t].markets = <<>>,
                                      ![t].idx = 0]
            /\ bot_error' = "None"
       ELSE IterationFailed(t, "OSError")

\* The end of an iteration: the overview is recomputed from the position
\* map and the P&L snapshot is handed over; a failing snapshot leaves
\* through the exception handler.
FinishIteration(t, pnlOk) ==
    /\ overview' = [total_exposure |-> GrossExposure(positions),
                    open_positions |-> OpenPositions(positions)]
    /\ emitted' = << PnlEvent(positions) >>
    /\ IF pnlOk
       THEN /\ tasks' = [tasks EXCEPT ![t].pc = "wait", ![t].markets = <<>>,
                                      ![t].idx = 0]
            /\ UNCHANGED bot_error
       ELSE IterationFailed(t, "OSError")

\* From the end of one market (or the fetched listing) to the next await:
\* the next order book fetch, a failure, or the end of the iteration. The
\* task's markets are already in place.
Advance(t, op, markets, i, pnlOk) ==
    LET nx == NextMarket(markets, i)
    IN  CASE nx.kind = "fetch" ->
               /\ tasks' = [tasks EXCEPT ![t].pc = "fetch_orderbook",
                                         ![t].markets = markets,
                                         ![t].idx = nx.idx]
               /\ emitted' = <<>>
               /\ lastCall' = [op |-> op, task |-> t, error |-> "None",
                               finished |-> FALSE]
               /\ UNCHANGED <<overview, bot_error>>
          [] nx.kind = "raise" ->
               /\ IterationFailed(t, "TypeError")
               /\ emitted' = <<>>
               /\ lastCall' = [op |-> op, task |-> t, error |-> "TypeError",
                               finished |-> FALSE]
               /\ UNCHANGED overview
          [] nx.kind = "end" ->
               /\ FinishIteration(t, pnlOk)
               /\ lastCall' = [op |-> op, task |-> t,
                               error |-> IF pnlOk THEN "None" ELSE "OSError",
                               finished |-> pnlOk]

\* Whether the way from market i on reaches the P&L snapshot, the only place
\* where the P&L log's answer is consulted.
ReachesSnapshot(markets, i) == NextMarket(markets, i).kind = "end"

\* fetch_markets returned.
LoopMarketsFetched(t, response, pnlOk) ==
    /\ tasks[t].pc = "fetch_markets"
    /\ ~tasks[t].cancelRequested
    /\ pnlOk \/ ReachesSnapshot(Fetched[response], 1)
    /\ LET markets == Fetched[response]
       IN  IF markets = <<>>
           THEN /\ tasks' = [tasks EXCEPT ![t].pc = "empty_sleep"]
                /\ emitted' = <<>>
                /\ lastCall' = [op |-> "markets_fetched", task |-> t,
                                error |-> "None", finished |-> FALSE]
                /\ UNCHANGED <<overview, bot_error>>
           ELSE Advance(t, "markets_fetched", markets, 1, pnlOk)
    /\ UNCHANGED <<whales, timeline, inserted, BOT_MODE, positions, bot_running, loop_count, bot_task,
                   bot_stop_event, stopper>>

\* asyncio.sleep(BOT_INTERVAL) after an empty listing ran out: continue.
LoopEmptySleepDone(t) ==
    /\ tasks[t].pc = "empty_sleep"
    /\ ~tasks[t].cancelRequested
    /\ WhileTest(t)
    /\ lastCall' = [op |-> "empty_sleep_done", task |-> t]
    /\ emitted' = <<>>
    /\ UNCHANGED <<whales, timeline, inserted, BOT_MODE, positions, overview, bot_error, bot_task, bot_stop_event, stopper>>

\* The answers of the logs that a market step consults: the whales log
\* when the book shows a whale, the signals log when the decision step is
\* reached, the trades log when an order is submitted, its answer to the
\* error row when a write before it raised. An answer that is not consulted
\* is fixed to success.
Consulted(pos, mode, market, book, whaleOk, logOk, sink) ==
    /\ whaleOk \/ (book.isDict /\ IsWhale(Analysed[book]))
    /\ logOk \/ (book.isDict /\ whaleOk)
    /\ sink.errorOk \/ SubmitFailed(mode, sink)
    /\ \/ sink = NoFailure
       \/ /\ whaleOk /\ logOk
          /\ MarketStep(pos, mode, market, book, TRUE, TRUE, NoFailure).submit
                # "none"

\* fetch_orderbook returned for the market at idx. No step of the loop or
\* of the start and stop handlers reads the whale history or the timeline,
\* so Spec follows the loop with the two histories hidden (held at their
\* initial value); HistorySpec follows what check_whale_activity does to
\* them.
LoopOrderbookFetched(t, book, whaleOk, logOk, sink) ==
    /\ tasks[t].pc = "fetch_orderbook"
    /\ ~tasks[t].cancelRequested
    /\ Consulted(positions, BOT_MODE, tasks[t].markets[tasks[t].idx], book,
                 whaleOk, logOk, sink)
    /\ LET market == tasks[t].markets[tasks[t].idx]
           ms == MarketStep(positions, BOT_MODE, market, book, whaleOk, logOk,
                            sink)
       IN  /\ positions' = ms.positions
           /\ emitted' = ms.events
           /\ IF ms.error # "None"
              THEN IterationFailed(t, ms.error)
              ELSE /\ tasks' = [tasks EXCEPT ![t].pc = "market_sleep"]
                   /\ UNCHANGED bot_error
           /\ lastCall' = [op |-> "market", task |-> t,
                           ticker |-> market.ticker,
                           prediction |-> ms.prediction,
                           position_before |-> get_position(positions,
                                                            market.ticker),
                           action |-> ms.action,
                           returned |-> ms.returned, submit |-> ms.submit,
                           error |-> ms.error, direction |-> ms.direction,
                           book_empty |-> book = EmptyBook]
    /\ UNCHANGED <<whales, timeline, inserted, BOT_MODE, overview, bot_running, loop_count, bot_task,
                   bot_stop_event, stopper>>

\* asyncio.sleep(0.2) after a market ran out.
LoopMarketSleepDone(t, pnlOk) ==
    /\ tasks[t].pc = "market_sleep"
    /\ ~tasks[t].cancelRequested
    /\ pnlOk \/ ReachesSnapshot(tasks[t].markets, tasks[t].idx + 1)
    /\ Advance(t, "market_sleep_done", tasks[t].markets, tasks[t].idx + 1,
               pnlOk)
    /\ UNCHANGED <<whales, timeline, inserted, BOT_MODE, positions, bot_running, loop_count, bot_task,
                   bot_stop_event, stopper>>

\* The wait for the next iteration ends because the stop event is set.
LoopWaitStopped(t) ==
    /\ tasks[t].pc = "wait"
    /\ bot_stop_event
    /\ Leave(t)
    /\ lastCall' = [op |-> "wait_stopped", task |-> t]
    /\ emitted' = <<>>
    /\ UNCHANGED <<whales, timeline, inserted, BOT_MODE, positions, overview, bot_error, loop_count, bot_task, bot_stop_event, stopper>>

\* The wait for the next iteration timed out: back to the while test.
LoopWaitTimeout(t) ==
    /\ tasks[t].pc = "wait"
    /\ ~bot_stop_event
    /\ WhileTest(t)
    /\ lastCall' = [op |-> "wait_timeout", task |-> t]
    /\ emitted' = <<>>
    /\ UNCHANGED <<whales, timeline, inserted, BOT_MODE, positions, overview, bot_error, bot_task, bot_stop_event, stopper>>

\* A loop that gives up at any await as soon as the stop event is set.
CancelDelivered_onStop(t) == tasks[t].cancelRequested \/ bot_stop_event

\* Whether the task's pending await raises CancelledError.
CancelDelivered(t) == tasks[t].cancelRequested

\* CancelledError raised at an await of the try block: break.
LoopCancelled(t) ==
    /\ tasks[t].pc \in TimedAwaits
    /\ CancelDelivered(t)
    /\ Leave(t)
    /\ lastCall' = [op |-> "cancelled", task |-> t, at |-> tasks[t].pc]
    /\ emitted' = <<>>
    /\ UNCHANGED <<whales, timeline, inserted, BOT_MODE, positions, overview, bot_error, loop_count, bot_task, bot_stop_event, stopper>>

\* ------------------------------------------------------------------- next

Next ==
    \/ start_bot_loop
    \/ stop_bot_loop
    \/ StopReturn
    \/ StopTimeout
    \/ \E t \in TaskIds : LoopBegin(t)
    \/ \E t \in TaskIds, response \in Listings, pnlOk \in BOOLEAN :
          LoopMarketsFetched(t, response, pnlOk)
    \/ \E t \in TaskIds : LoopEmptySleepDone(t)
    \/ \E t \in TaskIds, book \in Books, whaleOk \in BOOLEAN,
          logOk \in BOOLEAN, sink \in TradeSinks :
          LoopOrderbookFetched(t, book, whaleOk, logOk, sink)
    \/ \E t \in TaskIds, pnlOk \in BOOLEAN : LoopMarketSleepDone(t, pnlOk)
    \/ \E t \in TaskIds : LoopWaitStopped(t)
    \/ \E t \in TaskIds : LoopWaitTimeout(t)
    \/ \E t \in TaskIds : LoopCancelled(t)

\* The bot as deployed: the loop task and the start and stop handlers.
Spec == Init /\ [][Next]_vars

\* What the event loop and the venue owe the task: a task that is ready to
\* run is run, a sleep runs out, a wait on the stop event that is set
\* returns, a cancellation is delivered, every fetch returns, and a
\* stop_bot_loop call whose awaited task has finished is resumed. Nothing is
\* owed to the callers of start and stop, nor to the ten-second timeout.
LoopFairness ==
    /\ WF_vars(\E t \in TaskIds : LoopBegin(t))
    /\ WF_vars(\E t \in TaskIds, response \in Listings, pnlOk \in BOOLEAN :
                  LoopMarketsFetched(t, response, pnlOk))
    /\ WF_vars(\E t \in TaskIds : LoopEmptySleepDone(t))
    /\ WF_vars(\E t \in TaskIds, book \in Books, whaleOk \in BOOLEAN,
                  logOk \in BOOLEAN, sink \in TradeSinks :
                  LoopOrderbookFetched(t, book, whaleOk, logOk, sink))
    /\ WF_vars(\E t \in TaskIds, pnlOk \in BOOLEAN : LoopMarketSleepDone(t, pnlOk))
    /\ WF_vars(\E t \in TaskIds : LoopWaitStopped(t))
    /\ WF_vars(\E t \in TaskIds : LoopCancelled(t))
    /\ WF_vars(StopReturn)

\* The bot as deployed, with a scheduler and a venue that keep going.
LiveSpec == Spec /\ LoopFairness

\* The decision step alone, called through the demo endpoint.
DemoNext ==
    \E ticker \in Tickers, prediction \in Scores, logOk \in BOOLEAN :
        demo_signal(ticker, prediction, logOk)

DemoSpec == Init /\ [][DemoNext]_vars

\* The position ledger alone: position updates through the decision step
\* and snapshots through the demo endpoint.
LedgerNext ==
    \/ \E ticker \in Tickers, prediction \in Scores, logOk \in BOOLEAN :
          demo_signal(ticker, prediction, logOk)
    \/ \E pnlOk \in BOOLEAN : demo_pnl(pnlOk)

LedgerSpec == Init /\ [][LedgerNext]_vars

\* The state in which a pure function is about to be applied: the state
\* after construction, with the argument of the call at hand.
FunctionInit ==
    /\ BOT_MODE \in Modes
    /\ positions = [k \in Tickers |-> 0]
    /\ overview = [total_exposure |-> 0, open_positions |-> 0]
    /\ bot_running = FALSE
    /\ bot_error = "None"
    /\ loop_count = 0
    /\ bot_task = 0
    /\ bot_stop_event = FALSE
    /\ tasks = [t \in TaskIds |-> NoTask]
    /\ stopper = [pc |-> "idle", task |-> 0]
    /\ lastCall \in
          {[op |-> "call", fn |-> "analyze_orderbook", orderbook |-> b] :
              b \in AnalyzerBooks}
          \cup {[op |-> "call", fn |-> "generate_signal", features |-> f] :
                  f \in SignalFeatures}
          \cup {[op |-> "call", fn |-> "fetch_markets", response |-> r,
                  limit |-> n] : r \in VenueListings, n \in Limits}
    /\ emitted = <<>>
    /\ whales = <<>>
    /\ timeline = <<>>
    /\ inserted = [whales |-> 0, timeline |-> 0]

\* analyze_orderbook applied to the book at hand; a book that is no dict
\* raises on its first line.
AnalyzeBook ==
    /\ lastCall.op = "call"
    /\ lastCall.fn = "analyze_orderbook"
    /\ lastCall' = IF lastCall.orderbook.isDict
                   THEN [op |-> "analyze_orderbook",
                         orderbook |-> lastCall.orderbook,
                         raised |-> FALSE,
                         features |-> analyze_orderbook(lastCall.orderbook)]
                   ELSE [op |-> "analyze_orderbook",
                         orderbook |-> lastCall.orderbook,
                         raised |-> TRUE]
    /\ emitted' = <<>>
    /\ UNCHANGED <<whales, timeline, inserted, BOT_MODE, positions, overview,
                   bot_running, bot_error, loop_count, bot_task,
                   bot_stop_event, tasks, stopper>>

\* generate_signal applied to the features at hand.
GenerateSignal ==
    /\ lastCall.op = "call"
    /\ lastCall.fn = "generate_signal"
    /\ lastCall' = [op |-> "generate_signal", features |-> lastCall.features,
                    signal |-> generate_signal(lastCall.features)]
    /\ emitted' = <<>>
    /\ UNCHANGED <<whales, timeline, inserted, BOT_MODE, positions, overview,
                   bot_running, bot_error, loop_count, bot_task,
                   bot_stop_event, tasks, stopper>>

\* fetch_markets applied to the venue's answer and the limit at hand.
FetchMarkets ==
    /\ lastCall.op = "call"
    /\ lastCall.fn = "fetch_markets"
    /\ lastCall' = [op |-> "fetch_markets", response |-> lastCall.response,
                    limit |-> lastCall.limit,
                    markets |-> fetch_markets(lastCall.response, lastCall.limit)]
    /\ emitted' = <<>>
    /\ UNCHANGED <<whales, timeline, inserted, BOT_MODE, positions, overview,
                   bot_running, bot_error, loop_count, bot_task,
                   bot_stop_event, tasks, stopper>>

\* The pure functions alone, each applied once to the argument at hand.
FunctionNext == AnalyzeBook \/ GenerateSignal \/ FetchMarkets

FunctionSpec == FunctionInit /\ [][FunctionNext]_vars

\* The sizes and imbalances the whale endpoint is called with, on and around
\* the thresholds of check_whale_activity.
WhaleSizes == {0, 4999, 5000}

WhaleImbalances == {0, 249, 250}

\* The whale check and the two histories, called through the demo endpoint.
HistoryNext ==
    \E max_bid_size \in WhaleSizes, max_ask_size \in WhaleSizes,
       imbalance_strength \in WhaleImbalances, whaleOk \in BOOLEAN :
        demo_whale("A", max_bid_size, max_ask_size, imbalance_strength, whaleOk)

HistorySpec == Init /\ [][HistoryNext]_vars

\* ------------------------------------------------------- lifecycle claims

\* The awaits inside an iteration, as opposed to the waits between two.
InIteration(t) == tasks[t].pc \in {"fetch_markets", "fetch_orderbook", "market_sleep"}

\* C1: at most one loop task is alive at any time, and a start_bot_loop
\* call made while a task exists that has not finished returns False,
\* creates no task and does not clear the stop event.
C1_SingleLoopTask ==
    /\ [](Cardinality({t \in TaskIds : Live(t)}) <= 1)
    /\ [][(lastCall'.op = "start" /\ \E t \in TaskIds : Live(t))
            => /\ lastCall'.result = FALSE
               /\ UNCHANGED <<tasks, bot_task, bot_stop_event>>]_vars

\* A start refused while a task is alive and a stop is pending: the stop
\* event is still set.
C1_Witness ==
    /\ lastCall = [op |-> "start", result |-> FALSE]
    /\ \E t \in TaskIds : Live(t)
    /\ bot_stop_event

\* C2: a task that is in a wait between two iterations (the wait at the end
\* of an iteration or the wait after an empty listing) while the stop event
\* is set leaves that wait because of the stop event, not because the
\* interval ran out, and ends without another iteration.
C2_WaitEndsOnStopSignal ==
    [][\A t \in TaskIds :
          (/\ tasks[t].pc \in {"wait", "empty_sleep"}
           /\ bot_stop_event
           /\ tasks'[t].pc # tasks[t].pc)
          => (lastCall'.op = "wait_stopped" /\ Done(t)')]_vars

Failed ==
    /\ lastCall.op \in {"markets_fetched", "market_sleep_done", "market"}
    /\ lastCall.error # "None"

\* C4: a failure raised inside an iteration is recorded in bot_error and
\* takes the task to the wait between iterations, not out of the loop; from
\* that wait, with the stop event not set, the task's next step begins the
\* next iteration.
C4_FailureRecordedLoopContinues ==
    /\ [](Failed => /\ bot_error = lastCall.error
                    /\ tasks[lastCall.task].pc = "wait"
                    /\ bot_running)
    /\ [][\A t \in TaskIds :
             (tasks[t].pc = "wait" /\ ~bot_stop_event /\ tasks'[t] # tasks[t])
             => /\ tasks'[t].pc = "fetch_markets"
                /\ tasks'[t].loop_count = tasks[t].loop_count + 1]_vars

\* The second iteration of a task has begun with the failure of its first
\* still on record.
C4_Witness ==
    /\ lastCall.op = "wait_timeout"
    /\ tasks[lastCall.task].pc = "fetch_markets"
    /\ tasks[lastCall.task].loop_count = 2
    /\ bot_error # "None"


\* -------------------------------------------------------- decision claims

\* The decision table as the specification states it: the action and the
\* new position for a position held and a score in thousandths.
C5_Table(held, score) ==
    IF score >= 600 /\ held <= 0 THEN [action |-> "enter_long", position |-> 100]
    ELSE IF score <= 400 /\ held >= 0 THEN [action |-> "enter_short", position |-> -100]
    ELSE IF held # 0 /\ 450 < score /\ score < 550 THEN [action |-> "exit", position |-> 0]
    ELSE [action |-> "hold", position |-> held]

\* C5: the decision step chooses enter_long (new position +100) for a score
\* >= 0.6 with a position <= 0, else enter_short (new position -100) for a
\* score <= 0.4 with a position >= 0, else exit (new position 0) for a
\* nonzero position and a score strictly between 0.45 and 0.55, else hold
\* (position unchanged).
C5_DecisionTable ==
    lastCall.op = "demo_signal" =>
        LET expected == C5_Table(lastCall.position_before, lastCall.prediction)
        IN  /\ lastCall.action = expected.action
            /\ emitted[1].position_after = expected.position
            /\ lastCall.returned => positions[lastCall.ticker] = expected.position

\* A short position given up on a score inside the exit band.
C5_Witness ==
    /\ lastCall.op = "demo_signal"
    /\ lastCall.action = "exit"
    /\ lastCall.position_before = -100
    /\ lastCall.returned

\* C6: every stored position size is 0, +100 or -100.
C6_PositionSizes == \A k \in Tickers : positions[k] \in {0, 100, -100}

\* One market long and the other short after a sequence of decisions.
C6_Witness == positions["A"] = 100 /\ positions["B"] = -100

\* Whether the last step called the decision step.
DecisionInvoked ==
    /\ lastCall.op \in {"market", "demo_signal"}
    /\ lastCall.action # "none"

\* The rows of the last step by kind.
SignalRows == {i \in DOMAIN emitted : emitted[i].kind = "signal"}
TradeRows == {i \in DOMAIN emitted : emitted[i].kind = "trade"}

\* The statuses of the last step's trade rows, in the order handed over.
TradeStatuses ==
    LET rows == SelectSeq(emitted, LAMBDA e : e.kind = "trade")
    IN  [i \in DOMAIN rows |-> rows[i].status]

\* C7: every call of the decision step hands exactly one signal-decision
\* row to the signals log, also when the action is hold, and the row holds
\* the market's position before the call and the position after it.
C7_OneSignalEvent ==
    DecisionInvoked =>
        /\ Cardinality(SignalRows) = 1
        /\ \A i \in SignalRows :
              /\ emitted[i].ticker = lastCall.ticker
              /\ emitted[i].action = lastCall.action
              /\ emitted[i].position_before = lastCall.position_before
              /\ lastCall.returned =>
                    emitted[i].position_after = positions[lastCall.ticker]

\* A hold decided inside the loop for a market with a position, with its row.
C7_Witness ==
    /\ lastCall.op = "market"
    /\ lastCall.action = "hold"
    /\ lastCall.position_before # 0
    /\ Cardinality(SignalRows) = 1

\* Whether the last step was a market step of the loop whose decision
\* changed the market's position.
PositionChanged ==
    /\ lastCall.op = "market"
    /\ lastCall.returned
    /\ positions[lastCall.ticker] # lastCall.position_before

\* C8 as stated: a decision of the loop that changes a position hands over
\* exactly one signal-decision row and, when an order is submitted for it,
\* exactly one trade row.
C8_OneTradeEvent ==
    PositionChanged =>
        /\ Cardinality(SignalRows) = 1
        /\ lastCall.submit # "none" => Cardinality(TradeRows) = 1

\* C8, amended: a decision of the loop that changes a position hands over
\* exactly one signal-decision row; when no order is submitted for it (an
\* exit, or any action in live mode) no trade row; when an order is
\* submitted, one trade row per status of the order: submitted then filled,
\* or, when a write to the trades log raised, the rows up to that write and
\* then one error row.
C8_OneTradeEventPerStatus ==
    PositionChanged =>
        /\ Cardinality(SignalRows) = 1
        /\ \A i \in TradeRows : /\ emitted[i].ticker = lastCall.ticker
                                /\ emitted[i].size = 100
        /\ (lastCall.submit = "none") <=>
              (lastCall.action = "exit" \/ BOT_MODE = "live")
        /\ lastCall.submit = "none" => TradeRows = {}
        /\ lastCall.submit = "filled" =>
              TradeStatuses = <<"submitted", "filled">>
        /\ lastCall.submit \in {"error", "raised"} =>
              TradeStatuses \in {<<"submitted", "error">>,
                                 <<"submitted", "filled", "error">>}

\* A long position entered in paper mode with its order reported as
\* submitted and filled.
C8_Witness ==
    /\ PositionChanged
    /\ lastCall.action = "enter_long"
    /\ lastCall.submit = "filled"
    /\ Cardinality(TradeRows) = 2

C9_NewPosition(action, held) ==
    CASE action = "enter_long" -> 100
      [] action = "enter_short" -> -100
      [] action = "exit" -> 0
      [] action = "hold" -> held

C10_ErrorLeavesPosition ==
    (lastCall.op = "market" /\ lastCall.submit = "error")
        => positions[lastCall.ticker] = lastCall.position_before


\* -------------------------------------------------------- overview claims

\* The P&L rows of the last step.
PnlRows == {i \in DOMAIN emitted : emitted[i].kind = "pnl"}

\* The aggregates of the position map, written out for the two markets.
LedgerExposure ==
    (IF positions["A"] < 0 THEN -positions["A"] ELSE positions["A"])
    + (IF positions["B"] < 0 THEN -positions["B"] ELSE positions["B"])

LedgerOpen ==
    (IF positions["A"] # 0 THEN 1 ELSE 0) + (IF positions["B"] # 0 THEN 1 ELSE 0)

\* Whether the overview shows the aggregates of the position map.
OverviewCurrent ==
    /\ overview.total_exposure = LedgerExposure
    /\ overview.open_positions = LedgerOpen

\* Whether the last step was the end of an iteration: the overview update
\* and the snapshot.
IterationEnded ==
    /\ lastCall.op \in {"markets_fetched", "market_sleep_done"}
    /\ PnlRows # {}

\* C11 as stated: in every state a reader can observe, the overview's
\* total_exposure is the sum of the absolute position sizes and its
\* open_positions the number of nonzero positions.
C11_OverviewAlwaysCurrent == OverviewCurrent

\* C11, amended: the overview shows the aggregates of the position map when
\* an iteration has made its end-of-iteration update, both figures in one
\* step; no other step of the loop changes the overview, so a reader may
\* see a position ahead of the overview until that update.
C11_OverviewCurrentAtIterationEnd ==
    /\ [](IterationEnded => OverviewCurrent)
    /\ [][overview' # overview =>
            (lastCall'.op \in {"markets_fetched", "market_sleep_done"}
             /\ Cardinality(PnlRows') = 1)]_vars

\* An iteration ended with one position open and the overview showing it.
C11_Witness ==
    /\ IterationEnded
    /\ LedgerExposure = 100
    /\ overview = [total_exposure |-> 100, open_positions |-> 1]

\* C12 as stated: every iteration, however it ends, goes to the wait for
\* the next one through the overview update and exactly one P&L snapshot.
C12_EveryIterationSnapshots ==
    [][\A t \in TaskIds :
          (InIteration(t) /\ tasks'[t].pc \in {"wait", "empty_sleep"})
          => (Cardinality(PnlRows') = 1 /\ OverviewCurrent')]_vars

\* C12, amended: an iteration that fetched at least one market and went
\* through its markets without a failure ends, before the wait, with the
\* overview recomputed from the position map and exactly one P&L snapshot;
\* an iteration that found no markets, failed before the snapshot or was
\* cancelled ends with neither, and one whose snapshot write raised ends
\* with the overview recomputed and that one snapshot row.
C12_CompleteIterationSnapshots ==
    [][\A t \in TaskIds :
          InIteration(t) =>
             IF tasks'[t].pc = "wait" /\ lastCall'.error = "None"
             THEN /\ Cardinality(PnlRows') = 1
                  /\ OverviewCurrent'
                  /\ \A i \in PnlRows' :
                        /\ emitted'[i].gross_exposure = LedgerExposure'
                        /\ emitted'[i].position_size = LedgerOpen'
             ELSE \/ PnlRows' = {} /\ overview' = overview
                  \/ /\ tasks'[t].pc = "wait"
                     /\ lastCall'.op \in {"markets_fetched", "market_sleep_done"}
                     /\ lastCall'.error = "OSError"
                     /\ Cardinality(PnlRows') = 1
                     /\ OverviewCurrent']_vars

\* An iteration that opened a position in both markets has ended with its
\* snapshot and the task is at the wait.
C12_Witness ==
    /\ lastCall.op = "market_sleep_done"
    /\ lastCall.finished
    /\ tasks[lastCall.task].pc = "wait"
    /\ Cardinality(PnlRows) = 1
    /\ overview = [total_exposure |-> 200, open_positions |-> 2]

\* --------------------------------------------------------- history claims

\* C13: the whale history never holds more than 200 events and the
\* timeline never more than 100, however many have been inserted.
C13_HistoriesCapped == Len(whales) <= 200 /\ Len(timeline) <= 100

\* More events inserted than either cap, and both histories full.
C13_Witness ==
    /\ inserted.whales > 200
    /\ inserted.timeline > 200
    /\ Len(whales) = 200
    /\ Len(timeline) = 100

\* C14: each history is newest first and holds exactly the most recent
\* events, up to its cap, in reverse insertion order: what an insertion
\* beyond the cap removes is the oldest event, at the tail.
C14_NewestFirst ==
    /\ whales = [i \in 1..(IF inserted.whales < 200 THEN inserted.whales ELSE 200)
                    |-> inserted.whales - i + 1]
    /\ timeline = [i \in 1..(IF inserted.timeline < 100 THEN inserted.timeline
                                                       ELSE 100)
                      |-> inserted.timeline - i + 1]

\* After 203 insertions the timeline runs from event 203 down to event 104
\* and the whale history from event 203 down to event 4.
C14_Witness ==
    /\ inserted = [whales |-> 203, timeline |-> 203]
    /\ Len(timeline) = 100 /\ timeline[1] = 203 /\ timeline[100] = 104
    /\ Len(whales) = 200 /\ whales[1] = 203 /\ whales[200] = 4

\* -------------------------------------------------------- analyzer claims

\* Whether the last step analysed a book whose sides are both empty: an
\* empty list, no list or missing.
EmptySidesAnalysed ==
    /\ lastCall.op = "analyze_orderbook"
    /\ lastCall.orderbook.isDict
    /\ \A side \in {lastCall.orderbook.yes, lastCall.orderbook.no} :
          ~side.isList \/ side.levels = <<>>

\* C15 as stated: for a book with both sides empty the analyzer yields
\* bid_ratio 0.5, imbalance_strength 0, best_bid 0, best_ask 100 and
\* spread 0.
C15_EmptyBookSpreadZero ==
    EmptySidesAnalysed =>
        /\ ~lastCall.raised
        /\ lastCall.features.bid_ratio = 500
        /\ lastCall.features.imbalance_strength = 0
        /\ lastCall.features.best_bid = 0
        /\ lastCall.features.best_ask = 100
        /\ lastCall.features.spread = 0

\* C15, amended: for a book with both sides empty the analyzer yields
\* bid_ratio 0.5, imbalance_strength 0, best_bid 0, best_ask 100 and
\* spread 100, the distance between the two default prices.
C15_EmptyBookFeatures ==
    EmptySidesAnalysed =>
        /\ ~lastCall.raised
        /\ lastCall.features.bid_ratio = 500
        /\ lastCall.features.imbalance_strength = 0
        /\ lastCall.features.best_bid = 0
        /\ lastCall.features.best_ask = 100
        /\ lastCall.features.spread = 100

\* A book with an empty list on one side and no list on the other, analysed.
C15_Witness ==
    /\ EmptySidesAnalysed
    /\ lastCall.orderbook.yes = Side(<<>>)
    /\ ~lastCall.orderbook.no.isList
    /\ lastCall.features.spread = 100

\* The sizes of the levels 1..i of a side that have at least two fields,
\* added up.
RECURSIVE C16_Sum(_, _)
C16_Sum(levels, i) ==
    IF i = 0 THEN 0
    ELSE (IF Len(levels[i]) >= 2 THEN levels[i][2] ELSE 0) + C16_Sum(levels, i - 1)

\* The volume the claim gives a side: nothing when it is missing or no
\* list, else the sizes of its first five levels, short levels left out.
C16_Volume(side) ==
    IF ~side.isList THEN 0
    ELSE C16_Sum(side.levels, IF Len(side.levels) < 5 THEN Len(side.levels) ELSE 5)

C17_Thresholds ==
    \/ lastCall.max_bid_size >= 5000
    \/ lastCall.max_ask_size >= 5000
    \/ lastCall.imbalance_strength >= 250

\* C17: the whale check returns true exactly when max_bid_size >= 5000 or
\* max_ask_size >= 5000 or imbalance_strength >= 0.25, a size of exactly
\* 5000 and an imbalance of exactly 0.25 included; it returns false when all
\* three are below their thresholds, and it hands a row to the whales log
\* exactly when it flags.
C17_WhaleFlagExact ==
    lastCall.op = "demo_whale" =>
        /\ lastCall.returned => (lastCall.logged <=> C17_Thresholds)
        /\ ~C17_Thresholds => lastCall.returned /\ ~lastCall.logged
        /\ (emitted # <<>>) <=> C17_Thresholds

\* A check that returned true with an imbalance of exactly 0.25 and both
\* sizes one below 5000.
C17_Witness ==
    /\ lastCall.op = "demo_whale"
    /\ lastCall.max_bid_size = 4999
    /\ lastCall.max_ask_size = 4999
    /\ lastCall.imbalance_strength = 250
    /\ lastCall.returned
    /\ lastCall.logged
    /\ inserted.whales > 0

\* C18 as stated: for every flagged whale the side is "bid" and the
\* side_bias BUY_BIAS whenever max_bid_size >= max_ask_size, ties included,
\* and "ask" with SELL_BIAS only when max_bid_size < max_ask_size.
C18_BidWinsTies ==
    (lastCall.op = "demo_whale" /\ lastCall.logged) =>
        /\ lastCall.max_bid_size >= lastCall.max_ask_size =>
              /\ emitted[1].side = "bid"
              /\ lastCall.side_bias = "BUY_BIAS"
        /\ (emitted[1].side = "ask" \/ lastCall.side_bias = "SELL_BIAS") =>
              lastCall.max_bid_size < lastCall.max_ask_size

\* ---------------------------------------------------------- signal claims

\* C19: for all feature values the signal policy returns BUY with score
\* 0.6 + imbalance_strength when imbalance_strength > 0.15 and
\* bid_ratio > 0.55, SELL with score 0.6 + imbalance_strength when
\* imbalance_strength > 0.15 and bid_ratio < 0.45, and HOLD with score 0.5
\* in every other case; with imbalance_strength <= 0.15 no bid_ratio gives
\* BUY or SELL.
C19_SignalPolicy ==
    lastCall.op = "generate_signal" =>
        LET r == lastCall.features.bid_ratio
            i == lastCall.features.imbalance_strength
            out == lastCall.signal
        IN  /\ (i > 150 /\ r > 550) =>
                  out = [direction |-> "BUY", score |-> 600 + i]
            /\ (i > 150 /\ r < 450) =>
                  out = [direction |-> "SELL", score |-> 600 + i]
            /\ ~(i > 150 /\ (r > 550 \/ r < 450)) =>
                  out = [direction |-> "HOLD", score |-> 500]
            /\ i <= 150 => out.direction = "HOLD"

\* The policy applied to a one-sided book's ratio with an imbalance of
\* exactly 0.15: HOLD.
C19_Witness ==
    /\ lastCall.op = "generate_signal"
    /\ lastCall.features = [bid_ratio |-> 1000, imbalance_strength |-> 150]
    /\ lastCall.signal = [direction |-> "HOLD", score |-> 500]

\* ----------------------------------------------------- idempotence claim

\* C20: the decision step is idempotent for a fixed score: from every
\* position and for every score, a second application with the same score
\* right after a first one that returned yields hold and leaves the
\* position as the first one left it.
C20_SecondDecisionHolds ==
    (lastCall.op = "demo_signal" /\ lastCall.repeated) =>
        /\ lastCall.returned => lastCall.action = "hold"
        /\ positions[lastCall.ticker] = lastCall.position_before

\* Score 0.65 applied a second time, the first having entered long from
\* position 0: hold at +100.
C20_Witness ==
    /\ lastCall.op = "demo_signal"
    /\ lastCall.repeated
    /\ lastCall.returned
    /\ lastCall.prediction = 650
    /\ lastCall.position_before = 100
    /\ lastCall.action = "hold"
    /\ positions[lastCall.ticker] = 100

\* --------------------------------------------------------- listing claims

\* Where a market stands in the venue's listing of the last fetch.
C21_ListedAt(m) ==
    CHOOSE p \in DOMAIN lastCall.response.markets : lastCall.response.markets[p] = m

\* C21: the listing returned holds at most `limit` markets, ordered by
\* traded volume (volume + volume_24h) descending, and markets of equal
\* volume keep their relative order from the venue's listing.
C21_ListingRanked ==
    lastCall.op = "fetch_markets" =>
        LET out == lastCall.markets
        IN  /\ Len(out) <= lastCall.limit
            /\ \A i, j \in DOMAIN out :
                  i < j =>
                    /\ out[i].volume + out[i].volume_24h
                          >= out[j].volume + out[j].volume_24h
                    /\ out[i].volume + out[i].volume_24h
                          = out[j].volume + out[j].volume_24h
                       => C21_ListedAt(out[i]) < C21_ListedAt(out[j])

\* The venue lists B, F, A; two are asked for: F first, then B, which ties
\* with A and was listed before it.
C21_Witness ==
    /\ lastCall.op = "fetch_markets"
    /\ lastCall.limit = 2
    /\ Len(lastCall.response.markets) = 3
    /\ lastCall.response.markets[1].ticker = "B"
    /\ lastCall.response.markets[2].ticker = "F"
    /\ lastCall.response.markets[3].ticker = "A"
    /\ Len(lastCall.markets) = 2
    /\ lastCall.markets[1].ticker = "F"
    /\ lastCall.markets[2].ticker = "B"

\* C22 as stated: every market in the listing returned has status open or
\* active and volume greater than 0; a market with any other status, with
\* no status or with zero volume is never returned.
C22_OnlyOpenWithVolume ==
    lastCall.op = "fetch_markets" =>
        \A i \in DOMAIN lastCall.markets :
            /\ lastCall.markets[i].status \in {"open", "active"}
            /\ lastCall.markets[i].volume + lastCall.markets[i].volume_24h > 0

\* ------------------------------------------------------ submission claims

\* Whether the last step was a market step of the loop that submitted an
\* order.
Submitted ==
    /\ lastCall.op = "market"
    /\ lastCall.submit # "none"

\* The trade rows of the last step, in the order handed over.
TradeSeq == SelectSeq(emitted, LAMBDA e : e.kind = "trade")

\* Whether the first two trade rows of the last step are an order reported
\* as submitted and, right after it, its fill at the limit price.
SubmittedThenFilled ==
    /\ Len(TradeSeq) >= 2
    /\ TradeSeq[1].status = "submitted"
    /\ TradeSeq[2] = [TradeSeq[1] EXCEPT !.status = "filled"]
    /\ \E i \in DOMAIN emitted : emitted[i] = TradeSeq[1] /\ emitted[i + 1] = TradeSeq[2]

\* C23 as stated: in paper mode every order submission reports a trade
\* event with status submitted followed immediately by one with status
\* filled for the same order id, side and size at the limit price, and
\* nothing else.
C23_AlwaysSubmittedThenFilled ==
    (Submitted /\ BOT_MODE = "paper") =>
        /\ SubmittedThenFilled
        /\ Len(TradeSeq) = 2

\* C23, amended: in paper mode an order submission whose writes to the
\* trades log succeed reports submitted followed immediately by filled for
\* the same order id, side and size at the limit price, and nothing else; a
\* submission with a failing write reports the rows up to that write and
\* then an error row, and ends as an error. No row has another status.
C23_SubmittedThenFilledUnlessError ==
    (Submitted /\ BOT_MODE = "paper") =>
        /\ \A i \in DOMAIN TradeSeq :
              TradeSeq[i].status \in {"submitted", "filled", "error"}
        /\ TradeSeq[1].status = "submitted"
        /\ lastCall.submit = "filled" =>
              SubmittedThenFilled /\ Len(TradeSeq) = 2
        /\ lastCall.submit # "filled" =>
              /\ TradeSeq[Len(TradeSeq)].status = "error"
              /\ Len(TradeSeq) = 2 \/ (Len(TradeSeq) = 3 /\ SubmittedThenFilled)

\* A paper order with both writes taken: submitted, then filled.
C23_Witness ==
    /\ Submitted
    /\ BOT_MODE = "paper"
    /\ lastCall.submit = "filled"
    /\ SubmittedThenFilled
    /\ TradeSeq[2].limit_price = 50 * Scale

\* C24 as stated: a failure raised while submitting an order is caught
\* inside the submission step and reported as a trade error outcome (a row
\* with status error, a result with success false); it does not reach the
\* loop and the iteration goes on.
C24_SubmissionErrorContained ==
    (Submitted /\ lastCall.submit # "filled") =>
        /\ lastCall.submit = "error"
        /\ TradeSeq[Len(TradeSeq)].status = "error"
        /\ lastCall.error = "None"
        /\ bot_error # "OSError"
        /\ tasks[lastCall.task].pc = "market_sleep"

\* ------------------------------------------------------------ stop claims

\* Whether a step is a call of stop_bot_loop made when no loop task exists
\* or the loop task has finished.
StopCalledWhenStopped ==
    /\ stopper.pc = "idle"
    /\ lastCall'.op \in {"stop", "stop_wait"}
    /\ bot_task = 0 \/ tasks[bot_task].pc = "done"

\* C25: a stop request issued when no loop task exists or the loop task
\* has already finished returns false and changes nothing: the stop signal
\* is not touched, no task is cancelled and the shared state is unchanged.
C25_StopWhenStoppedIsNoOp ==
    [][StopCalledWhenStopped =>
          /\ lastCall' = [op |-> "stop", result |-> FALSE]
          /\ UNCHANGED <<bot_stop_event, tasks, bot_task, stopper, positions,
                         overview, bot_running, bot_error, loop_count,
                         whales, timeline, inserted, BOT_MODE>>]_vars

\* A stop request that returned false with a finished loop task at hand.
C25_Witness ==
    /\ lastCall = [op |-> "stop", result |-> FALSE]
    /\ bot_task # 0
    /\ tasks[bot_task].pc = "done"
    /\ stopper.pc = "idle"

\* -------------------------------------------------------- snapshot claims

\* C26: after any sequence of position updates the aggregate snapshot
\* reports gross_exposure equal to the sum of the absolute sizes in the
\* position map and a position count equal to the number of nonzero
\* entries, as they are when the snapshot is taken.
C26_SnapshotAggregates ==
    lastCall.op = "demo_pnl" =>
        /\ Len(emitted) = 1
        /\ emitted[1].kind = "pnl"
        /\ emitted[1].ticker = "ALL"
        /\ emitted[1].gross_exposure = LedgerExposure
        /\ emitted[1].position_size = LedgerOpen

\* A snapshot taken with A back at 0 and B at -100: gross exposure 100, one
\* open position.
C26_Witness ==
    /\ lastCall.op = "demo_pnl"
    /\ positions["A"] = 0
    /\ positions["B"] = -100
    /\ emitted[1].gross_exposure = 100
    /\ emitted[1].position_size = 1

\* -------------------------------------------------------- pipeline claims

\* C27: in the loop, where the score given to the decision step is the one
\* the signal policy produced, enter_short is never chosen and no market's
\* position is ever negative: the score is 0.5 (HOLD) or above 0.75 (BUY
\* and SELL alike), so a SELL signal on a flat market gives enter_long.
C27_LoopNeverShort ==
    /\ \A k \in Tickers : positions[k] >= 0
    /\ (lastCall.op = "market" /\ lastCall.action # "none") =>
          /\ lastCall.action # "enter_short"
          /\ lastCall.prediction = 500 \/ lastCall.prediction > 750
          /\ lastCall.direction = "HOLD" <=> lastCall.prediction = 500
          /\ (lastCall.direction = "SELL" /\ lastCall.position_before = 0) =>
                lastCall.action = "enter_long"
    /\ \A f \in SignalFeatures, held \in {0, 100} :
          LET signal == generate_signal(f)
              d == Decide(held, signal.score)
          IN  /\ signal.score = 500 \/ signal.score > 750
              /\ d.action # "enter_short"
              /\ d.position_after >= 0

\* A market step on a flat market whose book gave SELL: enter_long, and the
\* position is +100.
C27_Witness ==
    /\ lastCall.op = "market"
    /\ lastCall.direction = "SELL"
    /\ lastCall.position_before = 0
    /\ lastCall.action = "enter_long"
    /\ lastCall.returned
    /\ positions[lastCall.ticker] = 100

\* ------------------------------------------------------- stop completion

\* Whether a step is the return of a stop_bot_loop call that had waited for
\* the task.
StopCompletes == stopper.pc # "idle" /\ stopper'.pc = "idle"

\* C28 as stated, its part about the state in which the stop request
\* completes: when stop_bot_loop returns true the running flag is false.
C28_StoppedMeansNotRunning ==
    lastCall = [op |-> "stop", result |-> TRUE] => ~bot_running

\* C28, amended: every stop request issued while the loop task is live
\* eventually completes, whichever await the task was at; the task it
\* waited for has finished by then, and the step that finished the task set
\* the running flag to false. The flag is true again when the request
\* completes only if another loop task has been started since.
C28_StopEventuallyCompletes ==
    /\ \A t \in TaskIds :
          (stopper.pc = "waiting" /\ stopper.task = t)
              ~> (lastCall = [op |-> "stop", result |-> TRUE] /\ Done(t))
    /\ [][\A t \in TaskIds :
            (tasks[t].pc # "done" /\ tasks'[t].pc = "done") => ~bot_running']_vars
    /\ [][StopCompletes =>
            /\ tasks[stopper.task].pc = "done"
            /\ bot_running' => bot_task # stopper.task]_vars

\* A stop request that completed: the task it waited for is the current one,
\* it has finished, the stop event is set and the flag is false.
C28_Witness ==
    /\ lastCall = [op |-> "stop", result |-> TRUE]
    /\ \E t \in TaskIds : Done(t) /\ bot_task = t
    /\ ~bot_running
    /\ bot_stop_event

\* ------------------------------------------------- position change claims

\* C29 as stated: a failed order-book fetch for a market (the gateway
\* returns an empty book) does not change that market's position in that
\* iteration.
C29_FailedFetchKeepsPosition ==
    (lastCall.op = "market" /\ lastCall.book_empty) =>
        positions[lastCall.ticker] = lastCall.position_before

\* C30 as stated: every change of a market's position made by the loop, in
\* every bot mode and for every action, comes with an order submission and
\* its trade event for that market within the same market step.
C30_ChangeComesWithOrder ==
    PositionChanged =>
        /\ lastCall.submit # "none"
        /\ \E i \in TradeRows : emitted[i].ticker = lastCall.ticker

\* ------------------------------------------------------ error field claim

\* Whether a step is the end of an iteration that completed without failure.
IterationCompletes ==
    /\ lastCall'.op \in {"markets_fetched", "market_sleep_done"}
    /\ lastCall'.finished

\* C31: once an iteration failure has set the loop's error field, later
\* iterations that complete without failure leave it unchanged; the field
\* changes only when another failure overwrites it or when a loop task
\* begins, which resets it to empty.
C31_ErrorFieldSticky ==
    /\ [][IterationCompletes => bot_error' = bot_error]_vars
    /\ [][bot_error' # bot_error =>
            \/ /\ lastCall'.op \in {"markets_fetched", "market_sleep_done", "market"}
               /\ lastCall'.error # "None"
               /\ bot_error' = lastCall'.error
            \/ /\ lastCall'.op = "loop_begin"
               /\ bot_error' = "None"]_vars

\* An iteration that completed without failure with the error of an earlier
\* iteration still in the field.
C31_Witness ==
    /\ lastCall.op \in {"markets_fetched", "market_sleep_done"}
    /\ lastCall.finished
    /\ bot_error # "None"
    /\ loop_count = 2

====
